---- MODULE Spec2Model ----
(***************************************************************************)
(* The expense-splitting server of backend/src/index.ts and its recurring  *)
(* rent job, as a state machine.                                           *)
(*                                                                         *)
(* State: the three tables (Person, Expense, ExpenseSplit), the position   *)
(* of the POST /expenses, PUT /expenses/:id and rent-job handlers (every   *)
(* `await` is a point where another handler may run), the working state of *)
(* the settlement loop of GET /settlements, and the response last sent.    *)
(*                                                                         *)
(* Numbers.  Amounts and split values are JavaScript numbers; here they    *)
(* are integers counting hundredths (1 = 0.01), so 0.01 is 1 and 100.01 is *)
(* 10001.  Shares (total / n, value / 100 * total) are not whole           *)
(* hundredths: they are kept exactly, as w + f/Den hundredths, and         *)
(* toFixed(2) rounds them half away from zero, which is what toFixed does  *)
(* on the exact decimal value (on a double that stands for a tie, toFixed  *)
(* rounds to the side the double lies on).  The settlement loop compares   *)
(* differences of doubles with 0.01; there the side of the double is kept. *)
(***************************************************************************)
EXTENDS Integers, Sequences, FiniteSets, Bags, TLC

VARIABLES person, expense, expenseSplit, post, put, rent, settle, resp, runs

vars == <<person, expense, expenseSplit, post, put, rent, settle, resp, runs>>

(***************************************************************************)
(* Bounds of the model.                                                    *)
(***************************************************************************)
\* runs of POST /expenses, PUT /expenses/:id and the rent job in Spec
MaxRuns == 2
\* runs of POST /expenses in SpecPosts
MaxPosts == 2
\* length of the split array of a request of SpecPosts
MaxPostSplit == 2
\* runs of POST /expenses in SpecCrowd
MaxCrowdPosts == 1
\* people, and length of the split array of a request, in SpecCrowd
MaxCrowd == 7
\* people in a list of balances of SpecPlanner
MaxPlanPeople == 3
\* largest magnitude, in hundredths, of a balance of SpecPlanner
MaxCents == 4
\* length of the split array of a request of Spec
MaxSplit == 2

(***************************************************************************)
(* Program constants.                                                      *)
(***************************************************************************)
\* rentAmount = 30000, in hundredths
rentAmount == 3000000
\* the tolerance 0.01 of the validity check and of the settlement loop
Tolerance == 1
\* the percentage ceiling 100.01 of the validity check
PercentCeiling == 10001
\* the divisor of a percentage, value / 100, on values counted in hundredths
PercentScale == 10000

\* the rent job's split array
rentSplit ==
    << [name |-> "Shantanu", splitType |-> "equal", value |-> 0],
       [name |-> "Sanket", splitType |-> "equal", value |-> 0],
       [name |-> "Om", splitType |-> "equal", value |-> 0] >>

SplitType == {"equal", "percentage", "exact"}

(***************************************************************************)
(* Exact arithmetic on shares.                                             *)
(***************************************************************************)
\* the most splits one expense can carry in any specification of this module
SplitCap ==
    LET a == 2 * MaxSplit + Len(rentSplit)
        b == IF MaxPostSplit > a THEN MaxPostSplit ELSE a
    IN  IF MaxCrowd > b THEN MaxCrowd ELSE b

RECURSIVE Gcd(_, _)
Gcd(a, b) == IF b = 0 THEN a ELSE Gcd(b, a % b)

RECURSIVE LcmUpTo(_)
LcmUpTo(n) == IF n <= 1 THEN 1 ELSE LET l == LcmUpTo(n - 1) IN (l \div Gcd(l, n)) * n

\* the denominator of the fractional part of a share
Den == PercentScale * LcmUpTo(SplitCap)

\* a whole number of hundredths, as a share
Num(n) == [w |-> n, f |-> 0]

\* a + b
Plus(a, b) ==
    LET s == a.f + b.f
    IN  [w |-> a.w + b.w + (s \div Den), f |-> s % Den]

\* c * a, c a natural number
Times(c, a) ==
    LET s == c * a.f
    IN  [w |-> c * a.w + (s \div Den), f |-> s % Den]

\* a - b
Minus(a, b) ==
    LET s == a.f - b.f
    IN  IF s >= 0 THEN [w |-> a.w - b.w, f |-> s]
                  ELSE [w |-> a.w - b.w - 1, f |-> s + Den]

\* a <= b
Leq(a, b) == a.w < b.w \/ (a.w = b.w /\ a.f <= b.f)

\* x cut to whole hundredths, toward zero
toFixed2Truncating(x) ==
    IF x.w >= 0 \/ x.f = 0 THEN x.w ELSE x.w + 1

\* +x.toFixed(2): the nearest whole hundredth, a tie going away from zero
toFixed2(x) ==
    IF x.w >= 0 THEN x.w + (IF 2 * x.f >= Den THEN 1 ELSE 0)
                ELSE x.w + (IF 2 * x.f > Den THEN 1 ELSE 0)

Abs(n) == IF n < 0 THEN -n ELSE n

Min(a, b) == IF a <= b THEN a ELSE b

(***************************************************************************)
(* The tables, as person.findMany reads them: people in id order, each     *)
(* with the expenses it paid and its splits, each split with its expense   *)
(* and that expense's splits.  A table row's own id is not kept for        *)
(* ExpenseSplit (no code reads it), so that table is a bag of rows.        *)
(***************************************************************************)
Db == [person |-> person, expense |-> expense, expenseSplit |-> expenseSplit]

\* person.paid: the expenses whose paidById is p
PaidOf(db, p) == SelectSeq(db.expense, LAMBDA e : e.paidById = p)

\* person.splits: the split rows whose personId is p
SplitsOfPerson(db, p) ==
    [r \in {x \in DOMAIN db.expenseSplit : x.personId = p} |-> db.expenseSplit[r]]

\* expense.splits: the split rows whose expenseId is e
SplitsOfExpense(db, e) ==
    [r \in {x \in DOMAIN db.expenseSplit : x.expenseId = e} |-> db.expenseSplit[r]]

\* expense.splits.reduce((sum, s) => sum + s.value.toNumber(), 0)
RECURSIVE SumValues(_)
SumValues(B) ==
    IF DOMAIN B = {} THEN 0
    ELSE LET r == CHOOSE x \in DOMAIN B : TRUE
         IN  B[r] * r.value + SumValues([y \in DOMAIN B \ {r} |-> B[y]])

\* person.paid.reduce((sum, exp) => sum + exp.amount.toNumber(), 0)
RECURSIVE SumAmounts(_)
SumAmounts(s) == IF s = <<>> THEN 0 ELSE Head(s).amount + SumAmounts(Tail(s))

(***************************************************************************)
(* Split Evaluator: the share of one split row.                            *)
(***************************************************************************)
\* total / numPeople
EqualShare(total, numPeople) ==
    [w |-> total \div numPeople, f |-> (total % numPeople) * (Den \div numPeople)]

\* (value / 100) * total
PercentageShare(value, total) ==
    LET th == total \div PercentScale
        tl == total % PercentScale
    IN  [w |-> value * th + ((value * tl) \div PercentScale),
         f |-> ((value * tl) % PercentScale) * (Den \div PercentScale)]

\* the body of the owes reduce, for split row r
ShareOf(db, r) ==
    LET total == db.expense[r.expenseId].amount
        n == BagCardinality(SplitsOfExpense(db, r.expenseId))
        numPeople == IF n = 0 THEN 1 ELSE n
    IN  CASE r.splitType = "equal" -> EqualShare(total, numPeople)
          [] r.splitType = "percentage" -> PercentageShare(r.value, total)
          [] r.splitType = "exact" -> Num(r.value)

\* person.splits.reduce(...): what person p owes
RECURSIVE SumShares(_, _)
SumShares(db, B) ==
    IF DOMAIN B = {} THEN Num(0)
    ELSE LET r == CHOOSE x \in DOMAIN B : TRUE
         IN  Plus(Times(B[r], ShareOf(db, r)),
                  SumShares(db, [y \in DOMAIN B \ {r} |-> B[y]]))

(***************************************************************************)
(* Balance Aggregator: people.map(...) of GET /balances, GET /settlements. *)
(***************************************************************************)
\* +(paid - owes).toFixed(2)
BalanceOf(paid, owes) == toFixed2(Minus(paid, owes))

BalanceRow(db, p) ==
    LET paid == Num(SumAmounts(PaidOf(db, p)))
        owes == SumShares(db, SplitsOfPerson(db, p))
    IN  [name |-> db.person[p],
         paid |-> toFixed2(paid),
         owes |-> toFixed2(owes),
         balance |-> BalanceOf(paid, owes)]

Balances(db) == [p \in 1..Len(db.person) |-> BalanceRow(db, p)]

(***************************************************************************)
(* Expense Validity Checker: the loop over people and their splits.        *)
(***************************************************************************)
\* totalSplit > total, with no tolerance
ExactExceedsNoTolerance(db, r) ==
    SumValues(SplitsOfExpense(db, r.expenseId)) > db.expense[r.expenseId].amount

\* totalSplit > total + 0.01, on a split of type exact
ExactExceeds(db, r) ==
    SumValues(SplitsOfExpense(db, r.expenseId))
        > db.expense[r.expenseId].amount + Tolerance

\* totalPercentage > 100.01, on a split of type percentage
PercentageExceeds(db, r) ==
    SumValues(SplitsOfExpense(db, r.expenseId)) > PercentCeiling

\* some split of some person makes the handler return 400
InvalidSplits(db) ==
    \E p \in 1..Len(db.person) :
        \E r \in DOMAIN SplitsOfPerson(db, p) :
            \/ r.splitType = "exact" /\ ExactExceeds(db, r)
            \/ r.splitType = "percentage" /\ PercentageExceeds(db, r)


(***************************************************************************)
(* Handler state.                                                          *)
(***************************************************************************)
NoItem == [personId |-> 0, splitType |-> "equal", value |-> 0]

\* a handler that is not running.  left counts the items of the split array
\* the loop has still to read; the items are chosen as the loop reaches them.
\* A local the handler does not read again is reset when last read.
Idle ==
    [pc |-> "idle", amount |-> 0, paid_by |-> "", payerId |-> 0,
     expenseId |-> 0, left |-> 0, item |-> NoItem]

\* the settlement loop's variables.  creditors and debtors hold indices into
\* balances: filter and sort keep the objects of balances, so the loop's
\* updates are updates of balances.  computed is balances as the aggregator
\* returned it.
SettleIdle ==
    [pc |-> "idle", computed |-> <<>>, balances |-> <<>>, side |-> <<>>,
     creditors |-> <<>>, debtors |-> <<>>, i |-> 0, j |-> 0,
     settlements |-> <<>>]

NoResp == [route |-> "none", status |-> 0]

\* JavaScript runs the synchronous part of a handler to its end: while the
\* settlement loop runs, no other handler takes a step.
LoopFree == settle.pc \in {"idle", "done"}

\* a step that sends no response; a finished GET /settlements is forgotten
Quiet == resp' = NoResp /\ settle' = SettleIdle

Reply(r) == resp' = r /\ settle' = SettleIdle

(***************************************************************************)
(* prisma.person.upsert({where: {name}, update: {}, create: {name}})       *)
(***************************************************************************)
Known(name) == \E k \in 1..Len(person) : person[k] = name

Upserted(name) == IF Known(name) THEN person ELSE Append(person, name)

IdOf(people, name) == CHOOSE k \in 1..Len(people) : people[k] = name

\* prisma.expenseSplit.create for the item a handler holds
SplitRow(h) ==
    [expenseId |-> h.expenseId, personId |-> h.item.personId,
     splitType |-> h.item.splitType, value |-> h.item.value]

\* the ExpenseSplit table after the insert of a row: the table has no
\* uniqueness constraint on (expenseId, personId)
Inserted(B, row) == B (+) SetToBag({row})

\* prisma.expenseSplit.deleteMany({where: {expenseId}})
DeleteMany(B, e) == [r \in {x \in DOMAIN B : x.expenseId # e} |-> B[r]]

(***************************************************************************)
(* POST /expenses.  in: the amounts, names and split items of the bodies.  *)
(***************************************************************************)
\* expenseData.safeParse: a body with amount <= 0 or no split is answered 400
PostParse(in) ==
    /\ LoopFree /\ post.pc = "idle"
    /\ runs < in.maxRuns
    /\ \E amount \in in.amounts \cup {0}, paid_by \in in.names, n \in 0..in.maxSplit :
          IF amount > 0 /\ n >= 1
          THEN /\ runs' = runs + 1
               /\ post' = [Idle EXCEPT !.pc = "upsertPayer", !.amount = amount,
                                       !.paid_by = paid_by, !.left = n]
               /\ Quiet
          ELSE /\ runs' = runs
               /\ post' = post
               /\ Reply([route |-> "POST /expenses", status |-> 400])
    /\ UNCHANGED <<person, expense, expenseSplit, put, rent>>

PostUpsertPayer ==
    /\ LoopFree /\ post.pc = "upsertPayer"
    /\ person' = Upserted(post.paid_by)
    /\ post' = [post EXCEPT !.pc = "createExpense", !.paid_by = "",
                            !.payerId = IdOf(person', post.paid_by)]
    /\ Quiet
    /\ UNCHANGED <<expense, expenseSplit, put, rent, runs>>

PostCreateExpense ==
    /\ LoopFree /\ post.pc = "createExpense"
    /\ expense' = Append(expense, [amount |-> post.amount, paidById |-> post.payerId])
    /\ post' = [post EXCEPT !.pc = "upsertSplit", !.amount = 0, !.payerId = 0,
                            !.expenseId = Len(expense')]
    /\ Quiet
    /\ UNCHANGED <<person, expenseSplit, put, rent, runs>>

PostUpsertSplit(in) ==
    /\ LoopFree /\ post.pc = "upsertSplit"
    /\ \E name \in in.names, it \in in.items :
          /\ person' = Upserted(name)
          /\ post' = [post EXCEPT !.pc = "createSplit",
                                  !.item = [personId |-> IdOf(person', name),
                                            splitType |-> it.splitType,
                                            value |-> it.value]]
    /\ Quiet
    /\ UNCHANGED <<expense, expenseSplit, put, rent, runs>>

PostCreateSplit ==
    /\ LoopFree /\ post.pc = "createSplit"
    /\ expenseSplit' = Inserted(expenseSplit, SplitRow(post))
    /\ post' = [post EXCEPT !.pc = IF post.left > 1 THEN "upsertSplit" ELSE "respond",
                            !.left = post.left - 1, !.item = NoItem]
    /\ Quiet
    /\ UNCHANGED <<person, expense, put, rent, runs>>

PostRespond ==
    /\ LoopFree /\ post.pc = "respond"
    /\ post' = Idle
    /\ Reply([route |-> "POST /expenses", status |-> 201, id |-> post.expenseId])
    /\ UNCHANGED <<person, expense, expenseSplit, put, rent, runs>>

(***************************************************************************)
(* PUT /expenses/:id                                                       *)
(***************************************************************************)
PutParse(in) ==
    /\ LoopFree /\ put.pc = "idle"
    /\ runs < in.maxRuns
    /\ \E id \in 1..in.maxRuns, amount \in in.amounts \cup {0},
          paid_by \in in.names, n \in 0..in.maxSplit :
          IF amount > 0 /\ n >= 1
          THEN /\ runs' = runs + 1
               /\ put' = [Idle EXCEPT !.pc = "findUnique", !.amount = amount,
                                      !.paid_by = paid_by, !.left = n,
                                      !.expenseId = id]
               /\ Quiet
          ELSE /\ runs' = runs
               /\ put' = put
               /\ Reply([route |-> "PUT /expenses/:id", status |-> 400])
    /\ UNCHANGED <<person, expense, expenseSplit, post, rent>>

PutFindUnique ==
    /\ LoopFree /\ put.pc = "findUnique"
    /\ IF put.expenseId \in 1..Len(expense)
       THEN /\ put' = [put EXCEPT !.pc = "upsertPayer"]
            /\ Quiet
       ELSE /\ put' = Idle
            /\ Reply([route |-> "PUT /expenses/:id", status |-> 404])
    /\ UNCHANGED <<person, expense, expenseSplit, post, rent, runs>>

PutUpsertPayer ==
    /\ LoopFree /\ put.pc = "upsertPayer"
    /\ person' = Upserted(put.paid_by)
    /\ put' = [put EXCEPT !.pc = "update", !.paid_by = "",
                          !.payerId = IdOf(person', put.paid_by)]
    /\ Quiet
    /\ UNCHANGED <<expense, expenseSplit, post, rent, runs>>

PutUpdate ==
    /\ LoopFree /\ put.pc = "update"
    /\ expense' = [expense EXCEPT ![put.expenseId] =
                       [amount |-> put.amount, paidById |-> put.payerId]]
    /\ put' = [put EXCEPT !.pc = "deleteMany", !.amount = 0, !.payerId = 0]
    /\ Quiet
    /\ UNCHANGED <<person, expenseSplit, post, rent, runs>>

PutDeleteMany ==
    /\ LoopFree /\ put.pc = "deleteMany"
    /\ expenseSplit' = DeleteMany(expenseSplit, put.expenseId)
    /\ put' = [put EXCEPT !.pc = "upsertSplit"]
    /\ Quiet
    /\ UNCHANGED <<person, expense, post, rent, runs>>

PutUpsertSplit(in) ==
    /\ LoopFree /\ put.pc = "upsertSplit"
    /\ \E name \in in.names, it \in in.items :
          /\ person' = Upserted(name)
          /\ put' = [put EXCEPT !.pc = "createSplit",
                                !.item = [personId |-> IdOf(person', name),
                                          splitType |-> it.splitType,
                                          value |-> it.value]]
    /\ Quiet
    /\ UNCHANGED <<expense, expenseSplit, post, rent, runs>>

PutCreateSplit ==
    /\ LoopFree /\ put.pc = "createSplit"
    /\ expenseSplit' = Inserted(expenseSplit, SplitRow(put))
    /\ put' = [put EXCEPT !.pc = IF put.left > 1 THEN "upsertSplit" ELSE "respond",
                          !.left = put.left - 1, !.item = NoItem]
    /\ Quiet
    /\ UNCHANGED <<person, expense, post, rent, runs>>

PutRespond ==
    /\ LoopFree /\ put.pc = "respond"
    /\ put' = Idle
    /\ Reply([route |-> "PUT /expenses/:id", status |-> 200, id |-> put.expenseId])
    /\ UNCHANGED <<person, expense, expenseSplit, post, rent, runs>>

(***************************************************************************)
(* The rent job, on the first day of a month.                              *)
(***************************************************************************)
RentStart(in) ==
    /\ LoopFree /\ rent.pc = "idle"
    /\ runs < in.maxRuns
    /\ runs' = runs + 1
    /\ rent' = [Idle EXCEPT !.pc = "upsertPayer", !.amount = rentAmount,
                            !.paid_by = "Shantanu", !.left = Len(rentSplit)]
    /\ Quiet
    /\ UNCHANGED <<person, expense, expenseSplit, post, put>>

RentUpsertPayer ==
    /\ LoopFree /\ rent.pc = "upsertPayer"
    /\ person' = Upserted(rent.paid_by)
    /\ rent' = [rent EXCEPT !.pc = "createExpense", !.paid_by = "",
                            !.payerId = IdOf(person', rent.paid_by)]
    /\ Quiet
    /\ UNCHANGED <<expense, expenseSplit, post, put, runs>>

RentCreateExpense ==
    /\ LoopFree /\ rent.pc = "createExpense"
    /\ expense' = Append(expense, [amount |-> rent.amount, paidById |-> rent.payerId])
    /\ rent' = [rent EXCEPT !.pc = "upsertSplit", !.amount = 0, !.payerId = 0,
                            !.expenseId = Len(expense')]
    /\ Quiet
    /\ UNCHANGED <<person, expenseSplit, post, put, runs>>

RentUpsertSplit ==
    /\ LoopFree /\ rent.pc = "upsertSplit"
    /\ LET it == rentSplit[Len(rentSplit) - rent.left + 1]
       IN  /\ person' = Upserted(it.name)
           /\ rent' = [rent EXCEPT !.pc = "createSplit",
                                   !.item = [personId |-> IdOf(person', it.name),
                                             splitType |-> it.splitType,
                                             value |-> it.value]]
    /\ Quiet
    /\ UNCHANGED <<expense, expenseSplit, post, put, runs>>

RentCreateSplit ==
    /\ LoopFree /\ rent.pc = "createSplit"
    /\ expenseSplit' = Inserted(expenseSplit, SplitRow(rent))
    /\ rent' = IF rent.left > 1
               THEN [rent EXCEPT !.pc = "upsertSplit", !.left = rent.left - 1,
                                 !.item = NoItem]
               ELSE Idle
    /\ Quiet
    /\ UNCHANGED <<person, expense, post, put, runs>>


(***************************************************************************)
(* GET /balances                                                           *)
(***************************************************************************)
BalancesResponse(db) ==
    IF InvalidSplits(db)
    THEN [route |-> "GET /balances", status |-> 400]
    ELSE [route |-> "GET /balances", status |-> 200, data |-> Balances(db)]

GetBalances ==
    /\ LoopFree
    /\ Reply(BalancesResponse(Db))
    /\ UNCHANGED <<person, expense, expenseSplit, post, put, rent, runs>>

(***************************************************************************)
(* GET /settlements: Settlement Planner.                                   *)
(***************************************************************************)
\* the indices among 1..k of the rows with sign * balance > 0, the largest
\* sign * balance first, rows of equal balance in the order of balances
\* (Array.prototype.sort is stable)
RECURSIVE SortedBy(_, _, _)
SortedBy(bal, sign, k) ==
    IF k = 0 THEN <<>>
    ELSE LET s == SortedBy(bal, sign, k - 1)
             key(q) == sign * bal[q].balance
             n == Cardinality({q \in 1..Len(s) : key(s[q]) >= key(k)})
         IN  IF key(k) > 0
             THEN SubSeq(s, 1, n) \o <<k>> \o SubSeq(s, n + 1, Len(s))
             ELSE s

\* balances.filter(p => p.balance > 0).sort((a, b) => b.balance - a.balance)
Creditors(bal) == SortedBy(bal, 1, Len(bal))

\* balances.filter(p => p.balance < 0).sort((a, b) => a.balance - b.balance)
Debtors(bal) == SortedBy(bal, -1, Len(bal))

\* The loop computes on doubles.  A balance the aggregator returns is the
\* double of its hundredths c, and so is the literal 0.01.  The double of a
\* difference of two doubles lies below, on or above the double of the
\* decimal difference, according to the operands (0.03 - 0.02 < 0.01 =
\* 0.02 - 0.01 < 0.04 - 0.03).  A loop value is [c, o]: c its hundredths and
\* o the side of its magnitude, which decides a comparison with 0.01 only
\* when c is 1 or -1.  The body takes each side for a difference it stores.
Side == {-1, 0, 1}

\* the loop's variables before its first test
Planned(bal) ==
    [pc |-> "while", computed |-> bal, balances |-> bal,
     side |-> [p \in 1..Len(bal) |-> 0],
     creditors |-> Creditors(bal), debtors |-> Debtors(bal),
     i |-> 0, j |-> 0, settlements |-> <<>>]

\* the fetch, the validity check, the aggregator, filter and sort
GetSettlements ==
    /\ LoopFree
    /\ IF InvalidSplits(Db)
       THEN Reply([route |-> "GET /settlements", status |-> 400])
       ELSE /\ settle' = Planned(Balances(Db))
            /\ resp' = NoResp
    /\ UNCHANGED <<person, expense, expenseSplit, post, put, rent, runs>>

\* while (i < debtors.length && j < creditors.length), and the response
\* when the test fails
SettleTest ==
    /\ settle.pc = "while"
    /\ IF settle.i < Len(settle.debtors) /\ settle.j < Len(settle.creditors)
       THEN /\ settle' = [settle EXCEPT !.pc = "body"]
            /\ resp' = NoResp
       ELSE /\ settle' = [settle EXCEPT !.pc = "done"]
            /\ resp' = [route |-> "GET /settlements", status |-> 200,
                        summary |-> settle.balances,
                        settlements |-> settle.settlements]
    /\ UNCHANGED <<person, expense, expenseSplit, post, put, rent, runs>>

\* the loop value of row p
LoopValue(p) == [c |-> settle.balances[p].balance, o |-> settle.side[p]]

\* Math.max(-debtor.balance, creditor.balance)
MathMax(debtor, creditor) ==
    IF -debtor.c < creditor.c \/ (-debtor.c = creditor.c /\ debtor.o <= creditor.o)
    THEN creditor
    ELSE [c |-> -debtor.c, o |-> debtor.o]

\* Math.min(-debtor.balance, creditor.balance)
MathMin(debtor, creditor) ==
    IF -debtor.c < creditor.c \/ (-debtor.c = creditor.c /\ debtor.o <= creditor.o)
    THEN [c |-> -debtor.c, o |-> debtor.o]
    ELSE creditor

\* amount > 0.01
Transfers(amount) ==
    amount.c > Tolerance \/ (amount.c = Tolerance /\ amount.o > 0)

\* Math.abs(balance) < 0.01
Settled(balance) ==
    Abs(balance.c) < Tolerance \/ (Abs(balance.c) = Tolerance /\ balance.o < 0)

\* the double of a sum or difference of c hundredths, on side o
Rounded(c, o) == [c |-> c, o |-> IF Abs(c) = Tolerance THEN o ELSE 0]

\* debtor.balance -= amount
DebitSubtracts(balance, amount, o) == Rounded(balance.c - amount.c, o)

\* debtor.balance += amount
Debit(balance, amount, o) == Rounded(balance.c + amount.c, o)

\* creditor.balance -= amount
Credit(balance, amount, o) == Rounded(balance.c - amount.c, o)

\* one run of the loop body
SettleBody ==
    /\ settle.pc = "body"
    /\ \E od, oc \in Side :
        LET d == settle.debtors[settle.i + 1]
            c == settle.creditors[settle.j + 1]
            amount == MathMin(LoopValue(d), LoopValue(c))
            debtor == IF Transfers(amount)
                      THEN Debit(LoopValue(d), amount, od)
                      ELSE LoopValue(d)
            creditor == IF Transfers(amount)
                        THEN Credit(LoopValue(c), amount, oc)
                        ELSE LoopValue(c)
            out == IF Transfers(amount)
                   THEN Append(settle.settlements,
                               [from |-> settle.balances[d].name,
                                to |-> settle.balances[c].name,
                                amount |-> toFixed2(Num(amount.c))])
                   ELSE settle.settlements
        IN  settle' = [settle EXCEPT
                          !.pc = "while",
                          !.balances = [@ EXCEPT ![d].balance = debtor.c,
                                                 ![c].balance = creditor.c],
                          !.side = [@ EXCEPT ![d] = debtor.o, ![c] = creditor.o],
                          !.settlements = out,
                          !.i = IF Settled(debtor) THEN @ + 1 ELSE @,
                          !.j = IF Settled(creditor) THEN @ + 1 ELSE @]
    /\ resp' = NoResp
    /\ UNCHANGED <<person, expense, expenseSplit, post, put, rent, runs>>

(***************************************************************************)
(* Spec: the server and the rent job, requests about the three flatmates.  *)
(***************************************************************************)
Names == {"Shantanu", "Sanket"}

Amounts == {2, 4}

Items ==
    { [splitType |-> "equal", value |-> 0],
      [splitType |-> "exact", value |-> 1] }

In ==
    [amounts |-> Amounts, names |-> Names, items |-> Items,
     maxSplit |-> MaxSplit, maxRuns |-> MaxRuns]

Init ==
    /\ person = <<>>
    /\ expense = <<>>
    /\ expenseSplit = EmptyBag
    /\ post = Idle
    /\ put = Idle
    /\ rent = Idle
    /\ settle = SettleIdle
    /\ resp = NoResp
    /\ runs = 0

Next ==
    \/ PostParse(In) \/ PostUpsertPayer \/ PostCreateExpense
    \/ PostUpsertSplit(In) \/ PostCreateSplit \/ PostRespond
    \/ PutParse(In) \/ PutFindUnique \/ PutUpsertPayer \/ PutUpdate
    \/ PutDeleteMany \/ PutUpsertSplit(In) \/ PutCreateSplit \/ PutRespond
    \/ RentStart(In) \/ RentUpsertPayer \/ RentCreateExpense
    \/ RentUpsertSplit \/ RentCreateSplit
    \/ GetBalances \/ GetSettlements \/ SettleTest \/ SettleBody

Spec == Init /\ [][Next]_vars


(***************************************************************************)
(* SpecPosts: POST /expenses, GET /balances and GET /settlements, with     *)
(* amounts 0.01 and 0.04 and split values on both sides of the validity    *)
(* check's two limits.                                                     *)
(***************************************************************************)
PostAmounts == {1, 4}

PostItems ==
    { [splitType |-> "equal", value |-> 0],
      [splitType |-> "exact", value |-> 2],
      [splitType |-> "exact", value |-> 3],
      [splitType |-> "percentage", value |-> 5000],
      [splitType |-> "percentage", value |-> 5001] }

InPosts ==
    [amounts |-> PostAmounts, names |-> Names, items |-> PostItems,
     maxSplit |-> MaxPostSplit, maxRuns |-> MaxPosts]

NextPosts ==
    \/ PostParse(InPosts) \/ PostUpsertPayer \/ PostCreateExpense
    \/ PostUpsertSplit(InPosts) \/ PostCreateSplit \/ PostRespond
    \/ GetBalances \/ GetSettlements \/ SettleTest \/ SettleBody

SpecPosts == Init /\ [][NextPosts]_vars

(***************************************************************************)
(* SpecCrowd: POST /expenses and GET /balances with up to MaxCrowd people. *)
(* A request names people already stored or the first name of PersonNames  *)
(* not yet stored: the names are interchangeable, so nothing is lost.      *)
(***************************************************************************)
PersonNames ==
    <<"Shantanu", "Sanket", "Om", "Asha", "Ravi", "Meera", "Kiran", "Dev", "Tara">>

CrowdNames == {PersonNames[k] : k \in 1..Min(Len(person) + 1, MaxCrowd)}

CrowdItems ==
    { [splitType |-> "equal", value |-> 0],
      [splitType |-> "percentage", value |-> 5000] }

InCrowd ==
    [amounts |-> PostAmounts, names |-> CrowdNames, items |-> CrowdItems,
     maxSplit |-> MaxCrowd, maxRuns |-> MaxCrowdPosts]

NextCrowd ==
    \/ PostParse(InCrowd) \/ PostUpsertPayer \/ PostCreateExpense
    \/ PostUpsertSplit(InCrowd) \/ PostCreateSplit \/ PostRespond
    \/ GetBalances

SpecCrowd == Init /\ [][NextCrowd]_vars

(***************************************************************************)
(* SpecPlanner: the settlement loop on every list of at most MaxPlanPeople *)
(* balances of magnitude at most MaxCents.  Each list is one the           *)
(* aggregator returns: a person with balance b > 0 has paid an expense of  *)
(* amount b whose one split is its own exact split of value 0; a person    *)
(* with balance -k has paid an expense of amount 2k whose two splits are   *)
(* its own, one percentage split of value 100 and one equal split, and so  *)
(* owes 2k + k.                                                            *)
(***************************************************************************)
RowOf(p, b) ==
    [name |-> PersonNames[p],
     paid |-> IF b >= 0 THEN b ELSE -2 * b,
     owes |-> IF b >= 0 THEN 0 ELSE -3 * b,
     balance |-> b]

InitPlanner ==
    /\ person = <<>>
    /\ expense = <<>>
    /\ expenseSplit = EmptyBag
    /\ post = Idle
    /\ put = Idle
    /\ rent = Idle
    /\ resp = NoResp
    /\ runs = 0
    /\ \E n \in 1..MaxPlanPeople :
          \E b \in [1..n -> -MaxCents..MaxCents] :
              settle = Planned([p \in 1..n |-> RowOf(p, b[p])])

NextPlanner == SettleTest \/ SettleBody

SpecPlanner == InitPlanner /\ [][NextPlanner]_vars

(***************************************************************************)
(* Properties of Spec.                                                     *)
(***************************************************************************)
GetRoutes == {"GET /balances", "GET /settlements"}

\* handler h is between the first and the last write of expense e's splits
Writing(h, e) ==
    /\ h.expenseId = e
    /\ h.pc \in {"deleteMany", "upsertSplit", "createSplit"}

\* C3: every run of the settlement loop's body advances the cursor i or the
\* cursor j or records a transfer, so the loop ends and GET /settlements
\* responds.
C3_EveryIterationProgresses ==
    [][settle.pc = "body" =>
          \/ settle'.i > settle.i
          \/ settle'.j > settle.j
          \/ Len(settle'.settlements) > Len(settle.settlements)]_vars

\* C7: the summary GET /settlements returns holds, for every person, the
\* balance GET /balances returns for the same tables.
C7_SummaryIsBalances ==
    (resp.route = "GET /settlements" /\ resp.status = 200) =>
        /\ BalancesResponse(Db).status = 200
        /\ \A p \in 1..Len(person) :
              resp.summary[p].balance = BalancesResponse(Db).data[p].balance

\* C8: whenever GET /balances or GET /settlements reads the tables, every
\* stored expense has at least one split and no handler is part way through
\* writing its splits.
C8_ExpenseWrittenWithItsSplits ==
    resp.route \in GetRoutes =>
        \A e \in 1..Len(expense) :
            /\ BagCardinality(SplitsOfExpense(Db, e)) >= 1
            /\ ~Writing(post, e) /\ ~Writing(put, e) /\ ~Writing(rent, e)

\* C9: once POST /expenses or PUT /expenses/:id has answered 201 or 200, the
\* expense it wrote has at most one split per person.
C9_OneSplitPerExpenseAndPerson ==
    (resp.route \in {"POST /expenses", "PUT /expenses/:id"}
        /\ resp.status \in {200, 201}) =>
        \A q \in 1..Len(person) :
            BagCardinality(
                [r \in {x \in DOMAIN expenseSplit :
                            x.expenseId = resp.id /\ x.personId = q}
                    |-> expenseSplit[r]]) <= 1


(***************************************************************************)
(* Properties of the settlement loop (SpecPlanner).                        *)
(***************************************************************************)
RECURSIVE SumBalances(_)
SumBalances(bal) ==
    IF bal = <<>> THEN 0 ELSE Head(bal).balance + SumBalances(Tail(bal))

\* the total of the transfers of ts that name sends (dir = "from") or
\* receives (dir = "to")
RECURSIVE Moved(_, _, _)
Moved(ts, name, dir) ==
    IF ts = <<>> THEN 0
    ELSE (IF Head(ts)[dir] = name THEN Head(ts).amount ELSE 0)
         + Moved(Tail(ts), name, dir)

\* the balance of row p of bal after every transfer of ts: each amount added
\* to its sender's balance and subtracted from its receiver's
AfterTransfers(bal, ts, p) ==
    bal[p].balance + Moved(ts, bal[p].name, "from") - Moved(ts, bal[p].name, "to")

CountCreditors(bal) == Cardinality({p \in 1..Len(bal) : bal[p].balance > 0})

CountDebtors(bal) == Cardinality({p \in 1..Len(bal) : bal[p].balance < 0})

\* C2: when the loop has ended, every balance the aggregator returned is,
\* after the transfers, of magnitude below 0.01.
C2_AllBalancesSettled ==
    settle.pc = "done" =>
        \A p \in 1..Len(settle.computed) :
            Abs(AfterTransfers(settle.computed, settle.settlements, p)) < Tolerance

\* the loop has ended on 0.03, -0.02, -0.01 with the one transfer of 0.02:
\* 0.03 - 0.02 < 0.01 in doubles, so the creditor is passed over and the
\* debtor of 0.01 never pays
C2_ZeroSumLeftUnsettled ==
    /\ settle.pc = "done"
    /\ [p \in 1..Len(settle.computed) |-> settle.computed[p].balance] = <<3, -2, -1>>
    /\ Len(settle.settlements) = 1
    /\ settle.settlements[1].amount = 2
    /\ AfterTransfers(settle.computed, settle.settlements, 3) = -1

\* C4: the loop never holds more than creditors + debtors - 1 transfers when
\* the list has a creditor and a debtor, and none otherwise.
C4_TransferCountBound ==
    settle.pc # "idle" =>
        IF CountCreditors(settle.computed) >= 1 /\ CountDebtors(settle.computed) >= 1
        THEN Len(settle.settlements)
                <= CountCreditors(settle.computed) + CountDebtors(settle.computed) - 1
        ELSE Len(settle.settlements) = 0

\* the bound is met: two creditors and a debtor, two transfers returned
C4_Witness ==
    /\ settle.pc = "done"
    /\ CountCreditors(settle.computed) = 2
    /\ CountDebtors(settle.computed) = 1
    /\ Len(settle.settlements) = 2

\* the row of bal that carries name
RowNamed(bal, name) == CHOOSE p \in 1..Len(bal) : bal[p].name = name

\* C11: at every point of the loop, every transfer goes from a person whose
\* aggregated balance is negative to one whose aggregated balance is
\* positive, no person has sent more than the magnitude of its negative
\* balance or received more than its positive balance, and every working
\* balance is the aggregated balance after the transfers so far and lies
\* between it and zero.
C11_NoBalanceCrossesZero ==
    settle.pc # "idle" =>
        /\ \A k \in 1..Len(settle.settlements) :
              LET t == settle.settlements[k]
              IN  /\ t.amount > 0
                  /\ settle.computed[RowNamed(settle.computed, t.from)].balance < 0
                  /\ settle.computed[RowNamed(settle.computed, t.to)].balance > 0
        /\ \A p \in 1..Len(settle.computed) :
              LET b == settle.computed[p].balance
                  sent == Moved(settle.settlements, settle.computed[p].name, "from")
                  received == Moved(settle.settlements, settle.computed[p].name, "to")
                  working == settle.balances[p].balance
              IN  /\ sent <= (IF b < 0 THEN -b ELSE 0)
                  /\ received <= (IF b > 0 THEN b ELSE 0)
                  /\ working = AfterTransfers(settle.computed, settle.settlements, p)
                  /\ IF b >= 0 THEN 0 <= working /\ working <= b
                               ELSE b <= working /\ working <= 0

\* a debtor has sent the whole of its balance in two transfers, and a
\* creditor has received the whole of its own
C11_Witness ==
    /\ settle.pc = "done"
    /\ \E p, q \in 1..Len(settle.computed) :
          /\ settle.computed[p].balance < -Tolerance
          /\ Moved(settle.settlements, settle.computed[p].name, "from")
                = -settle.computed[p].balance
          /\ settle.balances[p].balance = 0
          /\ settle.computed[q].balance > Tolerance
          /\ Moved(settle.settlements, settle.computed[q].name, "to")
                = settle.computed[q].balance
          /\ Cardinality({k \in 1..Len(settle.settlements) :
                             settle.settlements[k].from = settle.computed[p].name}) = 2


(***************************************************************************)
(* Properties of the validity check and of the aggregator (SpecPosts).     *)
(***************************************************************************)
HasSplitOf(e, type) == \E r \in DOMAIN SplitsOfExpense(Db, e) : r.splitType = type

\* expense e has a split of type exact and its splits' values sum to more
\* than amount + 0.01, or it has a split of type percentage and its splits'
\* values sum to more than 100.01
Offending(e) ==
    \/ HasSplitOf(e, "exact")
          /\ SumValues(SplitsOfExpense(Db, e)) > expense[e].amount + 1
    \/ HasSplitOf(e, "percentage")
          /\ SumValues(SplitsOfExpense(Db, e)) > 10001

C5_BalanceIsPaidMinusOwes ==
    /\ (resp.route = "GET /balances" /\ resp.status = 200) =>
          \A p \in 1..Len(resp.data) :
              resp.data[p].balance = resp.data[p].paid - resp.data[p].owes
    /\ settle.pc # "idle" =>
          \A p \in 1..Len(settle.computed) :
              settle.computed[p].balance
                  = settle.computed[p].paid - settle.computed[p].owes

\* the shares the aggregator charges for the splits of expense e
ChargedFor(e) == SumShares(Db, SplitsOfExpense(Db, e))

\* amount + 0.01 + 0.01 % of amount
ChargeCeiling(e) ==
    Plus(Num(expense[e].amount + 1), PercentageShare(1, expense[e].amount))

\* expense e has one split for each of its splitters
DistinctSplitters(e) ==
    \A r1, r2 \in DOMAIN SplitsOfExpense(Db, e) :
        /\ expenseSplit[r1] = 1
        /\ r1.personId = r2.personId => r1 = r2

\* C10: when the validity check accepts the tables, the shares charged for
\* each expense total at most its amount, up to the check's tolerance (here
\* on the expenses that have one split for each of their splitters).
C10_AcceptedSharesWithinAmount ==
    (resp.route \in GetRoutes /\ resp.status = 200) =>
        \A e \in 1..Len(expense) :
            DistinctSplitters(e) => Leq(ChargedFor(e), ChargeCeiling(e))


(***************************************************************************)
(* Properties of the aggregator on closed tables (SpecCrowd).              *)
(***************************************************************************)
\* every expense's splits are charged exactly its amount, and every payer
\* has a split
Closed ==
    /\ \A e \in 1..Len(expense) : ChargedFor(e) = Num(expense[e].amount)
    /\ \A e \in 1..Len(expense) :
          \E r \in DOMAIN expenseSplit : r.personId = expense[e].paidById

\* C6, as claimed: on closed tables the balances GET /balances returns sum
\* to at most 0.02 in magnitude.
C6_ClosedSumWithinTwoHundredths ==
    (resp.route = "GET /balances" /\ resp.status = 200 /\ Closed) =>
        Abs(SumBalances(resp.data)) <= 2

\* C6, amended: on closed tables the balances sum to at most 0.005 times the
\* number of people in magnitude, which is at most 0.02 for up to five
\* people.
C6_ClosedSumWithinHalfHundredthEach ==
    (resp.route = "GET /balances" /\ resp.status = 200 /\ Closed) =>
        /\ 2 * Abs(SumBalances(resp.data)) <= Len(resp.data)
        /\ Len(resp.data) <= 5 => Abs(SumBalances(resp.data)) <= 2

\* closed tables of three people whose balances sum to 0.01
C6_Witness ==
    /\ resp.route = "GET /balances" /\ resp.status = 200 /\ Closed
    /\ Len(resp.data) = 3
    /\ Abs(SumBalances(resp.data)) = 1

====
